---- MODULE Spec2Model ----
(***************************************************************************)
(* Orbit agent: the LangGraph workflow (src/agent/graph.py), its routing   *)
(* functions (src/agent/edges.py), the planner / executor / evaluator      *)
(* nodes and the command safety gate (src/utils/safety.py).                *)
(*                                                                         *)
(* Python values are modelled by strings and records:                      *)
(*   - a key that a dict does not hold is the value MISSING;               *)
(*   - None is the value NONE;                                             *)
(*   - an exception that leaves a function is the result RAISE.            *)
(***************************************************************************)
EXTENDS Integers, Sequences, FiniteSets, TLC

MISSING == "MISSING"
NONE == "None"
RAISE == "RAISE"

\* ------------------------------------------------------------------ bounds
\* Longest plan the model's planner / inputs produce.
MaxSteps == 2
\* Largest current_step an arbitrary AgentState holds.
MaxCursor == 3
\* A stage counter stops counting here (it saturates, it blocks nothing).
MaxRuns == 3
\* The first MaxTrace stages of a run are recorded in order.
MaxTrace == 4
\* Longest free tail appended to a command head in the safety-gate inputs.
MaxTail == 2
\* aput calls of one behaviour
MaxPuts == 3
\* the largest limit given to alist
MaxLimit == 2
\* node calls of one session followed when sessions run side by side
MaxHops == 6

\* --------------------------------------------------------- AgentState values
Intents == {"command", "question", "workflow", "confirmation", "unknown"}

Outcomes ==
    {"goal_achieved", "continue_execution", "needs_replanning", "fatal_error", "incomplete"}

TerminalOutcomes == {"goal_achieved", "fatal_error", "incomplete"}

Stages == {"classifier", "command_generator", "planner", "executor", "evaluator", "responder"}

\* dict.get(key, default): the default only when the key is absent.
Get(value, default) == IF value = MISSING THEN default ELSE value

\* ------------------------------------------------------------------ edges.py
\* A variant that sends every intent but workflow to responder.
route_after_classifier_no_command(state) ==
    LET intent == Get(state.intent, "unknown")
    IN  IF intent = "workflow" THEN "planner" ELSE "responder"

route_after_classifier(state) ==
    LET intent == Get(state.intent, "unknown")
    IN  IF intent = "question" THEN "responder"
        ELSE IF intent = "workflow" THEN "planner"
        ELSE IF intent = "command" THEN "command_generator"
        ELSE IF intent = "confirmation" THEN "responder"
        ELSE "responder"

\* A variant that tests the presence of the steps key, not the steps.
route_after_planner_has_key(state) ==
    LET plan == state.plan
    IN  IF plan.type = "missing" THEN "responder"
        ELSE IF plan.type # "dict" THEN RAISE
        ELSE IF plan.has_steps THEN "executor"
        ELSE "responder"

\* plan = state.get("plan", {}); steps = plan.get("steps", []).  A plan that is
\* present but no dict (None, or the list that AgentState declares) has no
\* .get: AttributeError.
route_after_planner(state) ==
    LET plan == state.plan
    IN  IF plan.type = "missing" THEN "responder"
        ELSE IF plan.type # "dict" THEN RAISE
        ELSE IF plan.has_steps /\ Len(plan.steps) > 0 THEN "executor"
        ELSE "responder"

route_after_executor(state) == "evaluator"

route_after_evaluator(state) ==
    LET evaluation_outcome == Get(state.evaluation_outcome, "unknown")
    IN  IF evaluation_outcome = "continue_execution" THEN "executor"
        ELSE IF evaluation_outcome = "needs_replanning" THEN "planner"
        ELSE IF evaluation_outcome \in {"goal_achieved", "fatal_error", "incomplete"}
             THEN "responder"
        ELSE "responder"

\* ------------------------------------------------- plans, steps and results
\* Tool names a plan step can hold: None, the two registered tools of the
\* repository, a registered tool of the default danger level, an unknown name.
ToolNames == {NONE, "shell_exec", "file_ops", "low_tool", "no_such_tool"}

\* A step dict (PlanStep.__dict__ or any dict handed to execute_plan).
StepDicts == [tool_name : ToolNames, requires_confirmation : BOOLEAN]

\* Error texts of a result.  MISSING: the result dict has no "error" key.
ErrConfirm == "This step requires user confirmation"
ErrNotFound == "Tool not found in registry"
ErrPermission == "Tool requires higher permission level"
ToolErrorTexts == {"permission denied", "connection timeout"}

\* `word in error_message.lower()` for the texts above.
Mentions(text, word) ==
    \/ word = "confirmation" /\ text = ErrConfirm
    \/ word = "permission" /\ text \in {ErrPermission, "permission denied"}

\* ------------------------------------------------------- CompletionService
\* A JSON value read with dict.get and tested for truth: true, false, a
\* non-empty string ("false" included, which Python takes as true), or the
\* key absent.
JsonValues == {"true", "false", "string", "absent"}
Truthy(v) == v \in {"true", "string"}

\* One answer of the completion service to an evaluator prompt:
\*   raise      ainvoke raises
\*   nonstring  response.content is a list of parts, not a str
\*   garbage    text holding no JSON object
\*   json       text whose first '{' .. last '}' is a JSON object
\*   line       text that fails as a whole, with a JSON object on a line
EvalAnswers ==
    [kind : {"raise", "nonstring", "garbage"},
     is_recoverable : {"absent"}, goal_achieved : {"absent"}]
    \cup [kind : {"json", "line"},
          is_recoverable : JsonValues, goal_achieved : JsonValues]

EmptyDict == [is_recoverable |-> "absent", goal_achieved |-> "absent"]

\* EvaluatorNode._parse_json_response: the object found, else {}.
\* response.strip() on a non-str raises (AttributeError).
ParseRaises(answer) == answer.kind \in {"raise", "nonstring"}
_parse_json_response(answer) ==
    IF answer.kind \in {"json", "line"}
    THEN [is_recoverable |-> answer.is_recoverable, goal_achieved |-> answer.goal_achieved]
    ELSE EmptyDict

\* --------------------------------------------------------------- evaluator.py
\* An evaluation result: outcome, and current_step when the dict holds one.
EvalResult(outcome, has_step, step, error_message) ==
    [raised |-> FALSE, outcome |-> outcome, has_current_step |-> has_step,
     current_step |-> step, error_message |-> error_message]

EvalRaised ==
    [raised |-> TRUE, outcome |-> NONE, has_current_step |-> FALSE,
     current_step |-> 0, error_message |-> NONE]

\* A variant that looks at the latest result only.
has_errors_latest(execution_results) ==
    /\ Len(execution_results) > 0
    /\ execution_results[Len(execution_results)].status = "failed"

\* any(result.get("status") == "failed" for result in execution_results)
has_errors(execution_results) ==
    \E i \in 1..Len(execution_results) : execution_results[i].status = "failed"

_evaluate_error(execution_results, answer) ==
    LET latest_result == execution_results[Len(execution_results)]
        error_message == Get(latest_result.error, "Unknown error")
    IN  IF ParseRaises(answer)
        THEN EvalResult("needs_replanning", FALSE, 0, error_message)
        ELSE IF Truthy(_parse_json_response(answer).is_recoverable)
        THEN EvalResult("needs_replanning", FALSE, 0, error_message)
        ELSE EvalResult("fatal_error", FALSE, 0, error_message)

_evaluate_completion(execution_results, answer) ==
    IF ParseRaises(answer)
    THEN IF ~has_errors(execution_results)
         THEN EvalResult("goal_achieved", FALSE, 0, NONE)
         ELSE EvalResult("incomplete", FALSE, 0, NONE)
    ELSE IF Truthy(_parse_json_response(answer).goal_achieved)
    THEN EvalResult("goal_achieved", FALSE, 0, NONE)
    ELSE EvalResult("incomplete", FALSE, 0, NONE)

\* A variant of the operator below that continues after every skip.
_evaluate_skipped_step_continues(skipped_result, current_step) ==
    EvalResult("continue_execution", TRUE, current_step + 1, NONE)

\* skipped_result.get("error", "Step skipped").lower(): None has no .lower().
_evaluate_skipped_step(skipped_result, current_step) ==
    LET error_message == Get(skipped_result.error, "Step skipped")
    IN  IF error_message = NONE THEN EvalRaised
        ELSE IF Mentions(error_message, "confirmation")
        THEN EvalResult("needs_replanning", TRUE, current_step, NONE)
        ELSE IF Mentions(error_message, "permission")
        THEN EvalResult("needs_replanning", TRUE, current_step, NONE)
        ELSE EvalResult("continue_execution", TRUE, current_step + 1, NONE)

_evaluate_progress(execution_results, current_step) ==
    IF Len(execution_results) = 0
    THEN EvalResult("continue_execution", FALSE, 0, NONE)
    ELSE LET latest_result == execution_results[Len(execution_results)]
             status == latest_result.status
         IN  IF status = "completed"
             THEN EvalResult("continue_execution", TRUE, current_step + 1, NONE)
             ELSE IF status = "skipped"
             THEN _evaluate_skipped_step(latest_result, current_step)
             ELSE EvalResult("continue_execution", TRUE, current_step + 1, NONE)

\* EvaluatorNode.evaluate.  plan = state.get("plan", {}); a plan that is no
\* dict has no .get (AttributeError).
evaluate(state, execution_results, answer) ==
    LET plan == state.plan
        steps == IF plan.type = "dict" /\ plan.has_steps THEN plan.steps ELSE <<>>
        current_step == state.current_step
        total_steps == Len(steps)
        all_steps_completed == current_step >= total_steps
    IN  IF plan.type \notin {"missing", "dict"} THEN EvalRaised
        ELSE IF has_errors(execution_results)
        THEN _evaluate_error(execution_results, answer)
        ELSE IF all_steps_completed
        THEN _evaluate_completion(execution_results, answer)
        ELSE _evaluate_progress(execution_results, current_step)

\* ------------------------------------------------------ tools/registry.py
\* get_tool_registry registers shell_exec (danger 5) and file_ops (danger 3);
\* low_tool stands for a registered OrbitTool of the default danger level.
Registered == {"shell_exec", "file_ops", "low_tool"}

ShellDanger == 5
FileOpsDanger == 3
DefaultDanger == 0
danger_level(tool_name) ==
    IF tool_name = "shell_exec" THEN ShellDanger
    ELSE IF tool_name = "file_ops" THEN FileOpsDanger
    ELSE DefaultDanger

\* OrbitTool.is_safe_for_user, a classmethod:
\*   cls.danger_level if hasattr(cls, "danger_level") else 0
\* has_danger_level: what hasattr gives.  The tools are pydantic models
\* (BaseTool), danger_level an annotated field of theirs; whether the class
\* object shows a field as an attribute is decided by the model metaclass.
is_safe_for_user(tool_name, user_permission_level, has_danger_level) ==
    LET level == IF has_danger_level THEN danger_level(tool_name) ELSE DefaultDanger
    IN  level <= user_permission_level

\* The level _execute_step passes.
UserPermissionLevel == 1

\* ---------------------------------------------------------------- executor.py
\* What tool.execute does for one step: returns text, returns a ToolError,
\* returns some other value, or raises.
ToolOutcomes ==
    [kind : {"str", "other", "raise"}, text : {NONE}]
    \cup [kind : {"tool_error"}, text : ToolErrorTexts]

\* Which repository call of the step raises, if any: create, mark_running,
\* the terminal call in the try block, the terminal call in the finally block.
RepoFailures == {"none", "create", "mark_running", "first_terminal", "final_terminal"}

StepBehaviours == [tool : ToolOutcomes, repo : RepoFailures, has_danger_level : BOOLEAN]

\* The result dict of a step; calls: the repository calls issued for it;
\* invoked: tool.execute was called.
StepResult(status, error, tool_name, calls, invoked) ==
    [raised |-> FALSE, status |-> status, error |-> error, tool_name |-> tool_name,
     calls |-> calls, invoked |-> invoked]

\* An exception leaves _execute_step.
StepRaised(calls, invoked) ==
    [raised |-> TRUE, status |-> NONE, error |-> NONE, tool_name |-> NONE,
     calls |-> calls, invoked |-> invoked]

\* ExecutorNode._execute_step.  After an exception in the try block the
\* names output / execution_time_ms are unbound when result_data is built
\* (UnboundLocalError), so the exception path leaves the function.
_execute_step(step_data, b) ==
    LET tool_name == step_data.tool_name
        opened == <<"create", "mark_running">>
    IN  IF step_data.requires_confirmation
        THEN StepResult("skipped", ErrConfirm, MISSING, <<>>, FALSE)
        ELSE IF tool_name \notin Registered
        THEN StepResult("failed", ErrNotFound, MISSING, <<>>, FALSE)
        ELSE IF ~is_safe_for_user(tool_name, UserPermissionLevel, b.has_danger_level)
        THEN StepResult("skipped", ErrPermission, MISSING, <<>>, FALSE)
        ELSE IF b.repo = "create" THEN StepRaised(<<"create">>, FALSE)
        ELSE IF b.repo = "mark_running" THEN StepRaised(opened, FALSE)
        ELSE IF b.tool.kind = "raise"
        THEN StepRaised(opened \o <<"mark_failed">>, TRUE)
        ELSE IF b.tool.kind = "other"
        THEN StepResult("running", "str(result)", tool_name, opened, TRUE)
        ELSE LET mark == IF b.tool.kind = "str" THEN "mark_completed" ELSE "mark_failed"
             IN  IF b.repo = "first_terminal"
                 THEN StepRaised(opened \o <<mark, "mark_failed">>, TRUE)
                 ELSE IF b.repo = "final_terminal"
                 THEN StepRaised(opened \o <<mark, mark>>, TRUE)
                 ELSE IF b.tool.kind = "str"
                 THEN StepResult("completed", NONE, tool_name, opened \o <<mark, mark>>, TRUE)
                 ELSE StepResult("failed", b.tool.text, tool_name,
                                 opened \o <<mark, mark>>, TRUE)

\* ExecutorNode.execute_plan: every step of plan["steps"], in order; the
\* results so far are lost when a step raises.  bs[i]: what the collaborators
\* do for step i.
RECURSIVE RunSteps(_, _, _)
RunSteps(steps, bs, i) ==
    IF i > Len(steps) THEN <<>>
    ELSE <<_execute_step(steps[i], bs[i])>> \o RunSteps(steps, bs, i + 1)

BatchRaised(batch) == \E i \in 1..Len(batch) : batch[i].raised

\* The steps run before (and including) the first one that raises.
RECURSIVE UpToRaise(_)
UpToRaise(batch) ==
    IF batch = <<>> THEN <<>>
    ELSE IF Head(batch).raised THEN <<Head(batch)>>
    ELSE <<Head(batch)>> \o UpToRaise(Tail(batch))

\* A variant that hands the results back in reverse order.
execute_plan_reversed(plan, bs) ==
    LET steps == IF plan.has_steps THEN plan.steps ELSE <<>>
        done == UpToRaise(RunSteps(steps, bs, 1))
    IN  [i \in 1..Len(done) |-> done[Len(done) + 1 - i]]

execute_plan(plan, bs) ==
    LET steps == IF plan.has_steps THEN plan.steps ELSE <<>>
    IN  UpToRaise(RunSteps(steps, bs, 1))

\* The result dicts handed on as tool_results.
ResultDict(r) == [status |-> r.status, error |-> r.error, tool_name |-> r.tool_name]
ResultDicts(batch) == [i \in 1..Len(batch) |-> ResultDict(batch[i])]

\* ----------------------------------------------------------------- planner.py
\* A step object of the completion service's plan answer.
AnswerSteps ==
    [has_description : BOOLEAN, tool_name : {NONE, "shell_exec", "low_tool"},
     requires_confirmation : BOOLEAN]

RECURSIVE SeqsUpTo(_, _)
SeqsUpTo(S, n) ==
    IF n = 0 THEN {<<>>}
    ELSE LET shorter == SeqsUpTo(S, n - 1)
         IN  shorter \cup {Append(q, x) : q \in {r \in shorter : Len(r) = n - 1}, x \in S}

\* One answer of the completion service to a planning prompt (kinds as for
\* EvalAnswers); steps: the list under the "steps" key of the object found.
PlanAnswers ==
    [kind : {"raise", "nonstring", "garbage"}, steps : {<<>>}]
    \cup [kind : {"json", "line"}, steps : SeqsUpTo(AnswerSteps, MaxSteps)]

\* PlannerNode._parse_llm_plan_response: the "steps" of the plan data.
_parse_llm_plan_response(answer) ==
    IF answer.kind \in {"json", "line"} THEN answer.steps ELSE <<>>

\* A Plan; steps as Plan.to_dict() gives them (PlanStep.__dict__: a PlanStep
\* has no requires_confirmation attribute, the key is never there).
PlanOf(steps, goal) ==
    [raised |-> FALSE, steps |-> steps, goal |-> goal, requires_confirmation |-> FALSE]

PlanRaised ==
    [raised |-> TRUE, steps |-> <<>>, goal |-> NONE, requires_confirmation |-> FALSE]

PlanStepDict(tool_name) == [tool_name |-> tool_name, requires_confirmation |-> FALSE]

FallbackPlan == PlanOf(<<PlanStepDict(NONE)>>, "user_request")

\* PlannerNode._create_multi_step_plan.  llm.ainvoke is outside the try
\* block.  Inside it: step_data["description"] (KeyError), and the
\* requires_confirmation scan, which calls .get on a PlanStep object as soon
\* as one step has a tool_name (AttributeError); both end in the fallback plan.
_create_multi_step_plan(answer) ==
    LET data == _parse_llm_plan_response(answer)
    IN  IF answer.kind = "raise" THEN PlanRaised
        ELSE IF answer.kind = "nonstring" THEN FallbackPlan
        ELSE IF \E i \in 1..Len(data) : ~data[i].has_description THEN FallbackPlan
        ELSE IF \E i \in 1..Len(data) : data[i].tool_name # NONE THEN FallbackPlan
        ELSE PlanOf([i \in 1..Len(data) |-> PlanStepDict(data[i].tool_name)],
                    "plan_data.goal")

\* PlannerNode._create_simple_plan: the prompt's f-string reads max_steps,
\* which is no name of that scope (NameError), before any try block.
_create_simple_plan(answer) == PlanRaised

\* What create_plan reads of its input besides the answer:
\*   readable  last_message["role"] works (a dict message; a LangChain
\*             message object is not subscriptable: TypeError)
\*   simple    the request starts with one of the simple patterns
PlanInputs == [readable : BOOLEAN, simple : BOOLEAN]

\* PlannerNode.create_plan
create_plan(messages, in, answer) ==
    IF Len(messages) = 0 THEN PlanOf(<<>>, "No user message to plan for")
    ELSE IF ~in.readable THEN PlanRaised
    ELSE IF messages[Len(messages)] \notin {"user", "user_blank"}
    THEN PlanOf(<<>>, "Planning only available for user requests")
    ELSE IF in.simple THEN _create_simple_plan(answer)
    ELSE _create_multi_step_plan(answer)

\* -------------------------------------------------------------- classifier.py
\* Texts the completion service returns to the classifier prompt.
ClassifierTexts ==
    {"command", "question", "workflow", "confirmation", " Workflow\n", "COMMAND", "unknown",
     "I think this is a command"}

\* intent_str.strip().lower()
StripLower(text) ==
    IF text = " Workflow\n" THEN "workflow"
    ELSE IF text = "COMMAND" THEN "command"
    ELSE IF text = "I think this is a command" THEN "i think this is a command"
    ELSE text

valid_intents == {"command", "question", "workflow", "confirmation"}

\* classify_intent, the completion service having answered `text`.
classify_intent(messages, text) ==
    IF Len(messages) = 0 THEN "unknown"
    ELSE LET intent == StripLower(text)
         IN  IF intent \notin valid_intents THEN "question" ELSE intent

\* ------------------------------------------------------------ utils/safety.py
\* A command is a sequence of characters.
SAFE_PREFIXES ==
    {<<"l", "s">>,
     <<"p", "w", "d">>,
     <<"e", "c", "h", "o">>,
     <<"c", "a", "t">>,
     <<"g", "r", "e", "p">>,
     <<"f", "i", "n", "d">>,
     <<"g", "i", "t", " ", "s", "t", "a", "t", "u", "s">>,
     <<"g", "i", "t", " ", "l", "o", "g">>,
     <<"g", "i", "t", " ", "d", "i", "f", "f">>,
     <<"g", "i", "t", " ", "s", "h", "o", "w">>,
     <<"n", "p", "m", " ", "l", "i", "s", "t">>,
     <<"p", "i", "p", " ", "l", "i", "s", "t">>}

\* DANGEROUS_CHARS_REGEX: the characters ; & | > < $ and the backquote,
\* written here as the atom "backquote".
DangerousChars == {";", "&", "|", ">", "<", "backquote", "$"}

Whitespace == {" ", "\n", "\t"}

RECURSIVE LStrip(_)
LStrip(text) ==
    IF text # <<>> /\ Head(text) \in Whitespace THEN LStrip(Tail(text)) ELSE text

RECURSIVE RStrip(_)
RStrip(text) ==
    IF text # <<>> /\ text[Len(text)] \in Whitespace
    THEN RStrip(SubSeq(text, 1, Len(text) - 1)) ELSE text

\* str.strip()
Strip(text) == RStrip(LStrip(text))

\* str.startswith(prefix)
StartsWith(text, prefix) ==
    Len(prefix) <= Len(text) /\ SubSeq(text, 1, Len(prefix)) = prefix

\* DANGEROUS_CHARS_REGEX.search(text)
HasDangerousChar(text) == \E i \in 1..Len(text) : text[i] \in DangerousChars

\* One answer of the completion service to the safety prompt.  fence: the
\* markdown fence around the text, cut away before json.loads; payload: what
\* json.loads is given: no JSON, a JSON value that is no object, an object;
\* safe: the value of the member named safe of the object.
SafetyAnswers ==
    [kind : {"raise"}, fence : {"none"}, payload : {"invalid"}, safe : {"absent"}]
    \cup [kind : {"text"}, fence : {"none", "fence_json", "fence"},
          payload : {"invalid", "nondict"}, safe : {"absent"}]
    \cup [kind : {"text"}, fence : {"none", "fence_json", "fence"},
          payload : {"dict"}, safe : JsonValues]

WhitelistedReason == "Whitelisted safe command"

GateResult(is_safe, reason, llm_called) ==
    [is_safe |-> is_safe, reason |-> reason, llm_called |-> llm_called]

\* A variant of the allowlist test without the dangerous character search.
Whitelisted_any_chars(clean_cmd) ==
    \E prefix \in SAFE_PREFIXES :
        /\ StartsWith(clean_cmd, prefix)
        /\ clean_cmd = prefix \/ StartsWith(clean_cmd, prefix \o <<" ">>)

\* The allowlist test of is_safe_command on the stripped command.
Whitelisted(clean_cmd) ==
    /\ ~HasDangerousChar(clean_cmd)
    /\ \E prefix \in SAFE_PREFIXES :
         /\ StartsWith(clean_cmd, prefix)
         /\ clean_cmd = prefix \/ StartsWith(clean_cmd, prefix \o <<" ">>)

\* is_safe_command.  The value of data.get(safe, False) is returned as it is, whatever
\* JSON value it holds; a JSON value that is no object has no .get and ends
\* in the general except clause.
is_safe_command(command, answer) ==
    IF Strip(command) = <<>> THEN GateResult("false", "Empty command", FALSE)
    ELSE IF Whitelisted(Strip(command)) THEN GateResult("true", WhitelistedReason, FALSE)
    ELSE IF answer.kind = "raise"
    THEN GateResult("false", "Safety check failed: exception", TRUE)
    ELSE IF answer.payload = "invalid"
    THEN GateResult("false", "Safety check failed: Invalid JSON response from LLM", TRUE)
    ELSE IF answer.payload = "nondict"
    THEN GateResult("false", "Safety check failed: exception", TRUE)
    ELSE GateResult(IF answer.safe = "absent" THEN "false" ELSE answer.safe,
                    "data.reason", TRUE)

\* The reading by the caller of the first member of the result:
\* 'SAFE' if is_safe else 'UNSAFE' (scripts/verify_safety.py).
Classification(result) == IF Truthy(result.is_safe) THEN "SAFE" ELSE "UNSAFE"

\* ------------------------------------------------------------ tools/shell.py
\* shlex.split on a command without quotes: the words between whitespace.
RECURSIVE shlex_split(_)
shlex_split(command) ==
    LET text == LStrip(command)
        n == IF \E i \in 1..Len(text) : text[i] \in Whitespace
             THEN (CHOOSE i \in 1..Len(text) :
                      /\ text[i] \in Whitespace
                      /\ \A j \in 1..(i - 1) : text[j] \notin Whitespace) - 1
             ELSE Len(text)
    IN  IF text = <<>> THEN <<>>
        ELSE <<SubSeq(text, 1, n)>> \o shlex_split(SubSeq(text, n + 1, Len(text)))

\* What the bridge does with a command: answers with exit code 0, answers
\* with another exit code, or the request fails.
BridgeOutcomes == {"exit_0", "exit_nonzero", "request_error"}

\* ShellTool._arun: the words of the command go to the bridge unless there
\* are none.  sent: the request handed to bridge_client.execute_command;
\* result: the text returned, or RAISE.
ShellTool_arun(command, outcome) ==
    LET parts == shlex_split(command)
    IN  IF parts = <<>>
        THEN [sent |-> <<>>, result |-> "Error: Empty command"]
        ELSE [sent |-> <<[cmd |-> Head(parts), args |-> Tail(parts)]>>,
              result |-> IF outcome = "exit_0" THEN "stdout" ELSE RAISE]

\* ------------------------------------------------------- memory/checkpointer.py
Threads == {"thread_a", "thread_b"}

\* Checkpoint ids are 1, 2, ...; NoId: the config holds no checkpoint_id.
NoId == 0

\* The items of a messages list: a plain dict, or a BaseMessage object
\* (HumanMessage, AIMessage) as AgentState declares them.
MessageItems == {"dict", "HumanMessage"}

\* The channel values of a checkpoint: the AgentState fields of interest.
ChannelValues ==
    [messages : SeqsUpTo(MessageItems, 1),
     intent : {"workflow"}, plan : {"{steps: [..]}"}, current_step : {0, 1}]

\* _serialize_state: a dict value is serialized key by key, a dict inside a
\* list likewise, every other item of a list is kept as it is (model_dump
\* is applied to top-level values only).
_serialize_state(values) ==
    [values EXCEPT !.messages = [i \in 1..Len(values.messages) |-> values.messages[i]]]

\* _deserialize_state copies every key.
_deserialize_state(values) == values

\* json.dumps of the JSONB column: an object that is no dict, list, str,
\* number, bool or None is a TypeError.
JsonSerializable(values) ==
    \A i \in 1..Len(values.messages) : values.messages[i] = "dict"

Config(thread_id, checkpoint_id) ==
    [thread_id |-> thread_id, checkpoint_id |-> checkpoint_id]

NoConfig == Config(NONE, NoId)

Row(id, thread_id, parent_checkpoint_id, values, next_node, created_at) ==
    [id |-> id, thread_id |-> thread_id, parent_checkpoint_id |-> parent_checkpoint_id,
     checkpoint |-> values, next_node |-> next_node, created_at |-> created_at]

\* metadata["writes"] of a checkpoint: the names of the nodes that wrote in
\* the step, in key order (none for the input checkpoint).
MetadataWrites == {<<>>, <<"planner">>}

\* What a checkpointer call returned.  rows: the rows it returned or wrote,
\* in the order returned; config: the config aput returned.
Reply(op, config, limit, before, raised, rows, new_config) ==
    [op |-> op, config |-> config, limit |-> limit, before |-> before,
     raised |-> raised, rows |-> rows, new_config |-> new_config]

NoReply == Reply("none", NoConfig, 0, NoConfig, FALSE, <<>>, NoConfig)

\* Per thread: how many aput calls were made on it, and the channel values
\* of the last of them.
NoPuts == [t \in Threads |-> [n |-> 0, last |-> <<>>]]

\* SELECT ... WHERE: the rows that are in `kept`, in the same order.
RECURSIVE Select(_, _)
Select(rows, kept) ==
    IF rows = <<>> THEN <<>>
    ELSE (IF Head(rows) \in kept THEN <<Head(rows)>> ELSE <<>>) \o Select(Tail(rows), kept)

\* The rows of the table as a set.
RowSet(rows) == {rows[i] : i \in 1..Len(rows)}

\* ORDER BY created_at DESC on rows kept in insertion order, created_at
\* growing with every insertion.
Descending(rows) == [i \in 1..Len(rows) |-> rows[Len(rows) + 1 - i]]

\* LIMIT n
Limit(rows, n) == SubSeq(rows, 1, IF n < Len(rows) THEN n ELSE Len(rows))

\* PostgresCheckpointSaver.aput on a config with a thread id.  The insert
\* fails on a second row for the thread (thread_id is a unique column of
\* agent_states) and on channel values that json.dumps rejects.
aput(rows, config, values, writes) ==
    LET checkpoint_id == Len(rows) + 1
        data == _serialize_state(values)
        next_node == IF writes = <<>> THEN NONE ELSE Head(writes)
        new == Row(checkpoint_id, config.thread_id, config.checkpoint_id, data,
                   next_node, Len(rows) + 1)
    IN  IF \/ ~JsonSerializable(data)
           \/ \E i \in 1..Len(rows) : rows[i].thread_id = config.thread_id
        THEN [rows |-> rows,
              reply |-> Reply("put", config, 0, NoConfig, TRUE, <<>>, NoConfig)]
        ELSE [rows |-> Append(rows, new),
              reply |-> Reply("put", config, 0, NoConfig, FALSE, <<new>>,
                              Config(config.thread_id, checkpoint_id))]

\* PostgresCheckpointSaver.aget: the row of the checkpoint id if the config
\* holds one, else the newest row of the thread, else nothing.
aget(rows, config) ==
    LET ById == {r \in RowSet(rows) : r.id = config.checkpoint_id}
        ByThread == {r \in RowSet(rows) : r.thread_id = config.thread_id}
        found == IF config.checkpoint_id # NoId THEN Select(rows, ById)
                 ELSE IF config.thread_id # NONE
                 THEN Limit(Descending(Select(rows, ByThread)), 1)
                 ELSE <<>>
    IN  Reply("get", config, 0, NoConfig, FALSE,
              [i \in 1..Len(found) |->
                 [found[i] EXCEPT !.checkpoint = _deserialize_state(@)]],
              NoConfig)

\* A variant of alist that does not apply the `before` filter.
alist_ignores_before(rows, config, limit, before) ==
    LET Wanted == {r \in RowSet(rows) : r.thread_id = config.thread_id}
        db_states == Limit(Descending(Select(rows, Wanted)), limit)
        found == IF config.thread_id = NONE THEN <<>> ELSE Descending(db_states)
    IN  Reply("list", config, limit, before, FALSE,
              [i \in 1..Len(found) |->
                 [found[i] EXCEPT !.checkpoint = _deserialize_state(@)]],
              NoConfig)

\* PostgresCheckpointSaver.alist: the newest `limit` rows of the thread,
\* created before the `before` checkpoint if that one exists, oldest first.
alist(rows, config, limit, before) ==
    LET ById == {r \in RowSet(rows) : r.id = before.checkpoint_id}
        before_state == IF before.checkpoint_id # NoId THEN Select(rows, ById) ELSE <<>>
        Wanted == {r \in RowSet(rows) :
                     /\ r.thread_id = config.thread_id
                     /\ before_state # <<>> => r.created_at < before_state[1].created_at}
        db_states == Limit(Descending(Select(rows, Wanted)), limit)
        found == IF config.thread_id = NONE THEN <<>> ELSE Descending(db_states)
    IN  Reply("list", config, limit, before, FALSE,
              [i \in 1..Len(found) |->
                 [found[i] EXCEPT !.checkpoint = _deserialize_state(@)]],
              NoConfig)

\* ------------------------------------------------------------------- graph.py
\* pc        the node the graph driver runs next ("END": the run is over;
\*           "error": an exception left a node and ended the run)
\* state     the AgentState of the run
\* runs      how often each stage has been invoked (saturating at MaxRuns)
\* trace     the first MaxTrace stages invoked, in order
\* last      the stage invoked last
\* produced  the outcome the last evaluate() call returned
\* batch     per step of the last execute_plan call: repository calls, tool use
\* gate      the last is_safe_command call: command, answer given, result
\* bridge    the commands bridge_client.execute_command was given, in order
\* planned   the last create_plan call: its inputs and the plan returned
\* store     the rows of the agent_states table, in insertion order
\* puts      per thread, the number of aput calls and the values of the last
\* reply     the last checkpointer call: its arguments and what it returned
\* run_config  the config the run was started with (thread and checkpoint id)
\* sessions  per session run concurrently: position, AgentState, answers it is given
\* answered  the kind of answer the completion service gave evaluate(), while the
\*           evaluator is the stage invoked last
VARIABLES pc, state, runs, trace, last, produced, batch, gate, bridge, planned, store, puts, reply, run_config, sessions, answered

vars == <<pc, state, runs, trace, last, produced, batch, gate, bridge, planned, store, puts, reply, run_config, sessions, answered>>

\* The ids of the sessions that run the graph at the same time.
SessionIds == {"session_a", "session_b"}

\* No concurrent sessions.
NoSessions == [s \in SessionIds |-> [pc |-> "none"]]

\* No answer to evaluate() on record.
NoAnswer == "none"

NoPlanned ==
    [called |-> FALSE, messages |-> <<>>, in |-> [readable |-> TRUE, simple |-> FALSE],
     answer |-> [kind |-> "raise", steps |-> <<>>], plan |-> PlanRaised]

NoGate ==
    [called |-> FALSE, command |-> <<>>,
     answer |-> [kind |-> "raise", fence |-> "none", payload |-> "invalid", safe |-> "absent"],
     result |-> GateResult("false", "", FALSE)]

\* plan values of an AgentState: the key absent, a list (the type AgentState
\* declares), a dict with or without "steps".
PlanMissing == [type |-> "missing", has_steps |-> FALSE, steps |-> <<>>, goal |-> MISSING]
PlanList == [type |-> "list", has_steps |-> FALSE, steps |-> <<>>, goal |-> MISSING]
PlanEmptyDict == [type |-> "dict", has_steps |-> FALSE, steps |-> <<>>, goal |-> MISSING]
PlanDict(steps, goal) == [type |-> "dict", has_steps |-> TRUE, steps |-> steps, goal |-> goal]

\* Plan.to_dict()
to_dict(plan) == PlanDict(plan.steps, plan.goal)

\* The message lists a run starts with (roles; user_blank: a user message
\* with empty content).
InitialMessages == {<<>>, <<"user">>, <<"user_blank">>, <<"ai">>, <<"user", "ai", "user">>}

\* The initial_state of invoke_agent / stream_agent (plan {}) and of
\* scripts/verify_graph.py (plan [], no evaluation_outcome key).
InitialStates ==
    [messages : InitialMessages, intent : {"unknown"}, command : {""},
     plan : {PlanEmptyDict, PlanList}, current_step : {0}, tool_results : {<<>>},
     evaluation_outcome : {NONE, MISSING}, is_complete : {FALSE}, iteration_count : {0}]

NoRuns == [s \in Stages |-> 0]

Init ==
    /\ pc = "START"
    /\ state \in InitialStates
    /\ runs = NoRuns
    /\ trace = <<>>
    /\ last = "none"
    /\ produced = "none"
    /\ batch = <<>>
    /\ gate = NoGate
    /\ bridge = <<>>
    /\ planned = NoPlanned
    /\ store = <<>>
    /\ puts = NoPuts
    /\ reply = NoReply
    /\ run_config = NoConfig
    /\ sessions = NoSessions
    /\ answered = NoAnswer

\* A variant of the reducer below: the update replaces the list, as it does
\* for a key that has no reducer.
add_messages_overwrite(left, right) == right

\* The reducer of the messages key, add_messages: a message of the update
\* whose id no message of the list has is appended (a message built by a
\* node has no id and is given a fresh one); the nodes build no
\* RemoveMessage.
add_messages(left, right) == left \o right

\* Bookkeeping of one stage invocation.
Invoke(stage) ==
    /\ runs' = [runs EXCEPT ![stage] = IF @ < MaxRuns THEN @ + 1 ELSE @]
    /\ trace' = IF Len(trace) < MaxTrace THEN Append(trace, stage) ELSE trace
    /\ last' = stage

\* An exception leaves the node: the graph driver ends the run with it.
Abort ==
    /\ pc' = "error"
    /\ UNCHANGED state

\* workflow.add_edge(START, "classifier")
Start ==
    /\ pc = "START"
    /\ pc' = "classifier"
    /\ UNCHANGED <<state, runs, trace, last, produced, batch, gate, bridge, planned, store, puts, reply, run_config, sessions, answered>>

\* classify_intent, then route_after_classifier.  chain.ainvoke is in no try
\* block.
ClassifierStage ==
    /\ pc = "classifier"
    /\ Invoke("classifier")
    /\ UNCHANGED <<produced, batch, gate, bridge, planned, store, puts, reply, run_config, sessions>>
    /\ answered' = NoAnswer
    /\ \/ /\ Len(state.messages) > 0
          /\ Abort
       \/ \E text \in ClassifierTexts :
            LET next == [state EXCEPT !.intent = classify_intent(state.messages, text)]
            IN  /\ state' = next
                /\ pc' = route_after_classifier(next)

\* generate_command, then the edge to responder.  An exception of the chain
\* is caught and answered with an error message.
LastUserRequest(messages) ==
    LET users == {i \in 1..Len(messages) : messages[i] \in {"user", "user_blank"}}
    IN  IF users = {} THEN ""
        ELSE LET i == CHOOSE k \in users : \A j \in users : j <= k
             IN  IF messages[i] = "user" THEN "request" ELSE ""

\* A variant of the edge below that leads to planner.
edge_after_command_generator_to_planner == "planner"

\* workflow.add_edge("command_generator", "responder")
edge_after_command_generator == "responder"

generate_command(st, command) ==
    IF Get(st.intent, "unknown") # "command" THEN st
    ELSE IF LastUserRequest(st.messages) = "" THEN st
    ELSE [st EXCEPT !.messages = add_messages(@, <<"ai">>), !.command = command]

CommandGeneratorStage ==
    /\ pc = "command_generator"
    /\ Invoke("command_generator")
    /\ UNCHANGED <<produced, batch, gate, bridge, planned, store, puts, reply, run_config, sessions>>
    /\ answered' = NoAnswer
    /\ \E command \in {"ls -la", ""} : state' = generate_command(state, command)
    /\ pc' = edge_after_command_generator

\* The planner wrapper, then route_after_planner.
planner(st, plan) ==
    [st EXCEPT !.plan = to_dict(plan), !.current_step = 1,
               !.tool_results = <<>>, !.is_complete = FALSE]

\* Every plan create_plan can return for a message list, over all requests
\* and all answers of the completion service.
PlansFor == [messages \in InitialMessages |->
               {create_plan(messages, in, answer) : in \in PlanInputs, answer \in PlanAnswers}]

PlannerStage ==
    /\ pc = "planner"
    /\ Invoke("planner")
    /\ UNCHANGED <<produced, batch, gate, bridge, planned, store, puts, reply, run_config, sessions>>
    /\ answered' = NoAnswer
    /\ \E plan \in PlansFor[state.messages] :
         IF plan.raised THEN Abort
         ELSE LET next == planner(state, plan)
              IN  /\ state' = next
                  /\ pc' = route_after_planner(next)

\* The executor wrapper, then the edge to evaluator.
executor(st, results) == [st EXCEPT !.tool_results = results]

\* The collaborator behaviours worth telling apart for a step: one for every
\* distinct thing _execute_step can return for it.
BehavioursOf(step_data) ==
    LET returns == {_execute_step(step_data, b) : b \in StepBehaviours}
    IN  {CHOOSE b \in StepBehaviours : _execute_step(step_data, b) = r : r \in returns}

RECURSIVE BehaviourSeqs(_)
BehaviourSeqs(steps) ==
    IF steps = <<>> THEN {<<>>}
    ELSE {<<b>> \o rest : b \in BehavioursOf(Head(steps)), rest \in BehaviourSeqs(Tail(steps))}

ExecutorStage ==
    /\ pc = "executor"
    /\ Invoke("executor")
    /\ UNCHANGED <<produced, gate, bridge, planned, store, puts, reply, run_config, sessions>>
    /\ answered' = NoAnswer
    /\ IF state.plan.type \notin {"missing", "dict"}
       THEN Abort /\ batch' = <<>>
       ELSE \E bs \in BehaviourSeqs(state.plan.steps) :
              LET done == execute_plan(state.plan, bs)
              IN  /\ batch' = [i \in 1..Len(done) |->
                                 [calls |-> done[i].calls, invoked |-> done[i].invoked]]
                  /\ IF BatchRaised(done) THEN Abort
                     ELSE /\ state' = executor(state, ResultDicts(done))
                          /\ pc' = route_after_executor(state')

\* A variant of the wrapper that leaves evaluation_outcome as it was.
evaluator_keeps_outcome(st, evaluation_result) ==
    [st EXCEPT !.current_step = IF evaluation_result.has_current_step
                                THEN evaluation_result.current_step ELSE @,
               !.is_complete = evaluation_result.outcome \in TerminalOutcomes]

\* The evaluator wrapper, then route_after_evaluator.
evaluator(st, evaluation_result) ==
    [st EXCEPT !.evaluation_outcome = evaluation_result.outcome,
               !.current_step = IF evaluation_result.has_current_step
                                THEN evaluation_result.current_step ELSE @,
               !.is_complete = evaluation_result.outcome \in TerminalOutcomes]

EvaluatorStage ==
    /\ pc = "evaluator"
    /\ Invoke("evaluator")
    /\ UNCHANGED <<batch, gate, bridge, planned, store, puts, reply, run_config, sessions>>
    /\ \E answer \in EvalAnswers :
         LET evaluation_result == evaluate(state, state.tool_results, answer)
         IN  /\ answered' = answer.kind
             /\ IF evaluation_result.raised
                THEN Abort /\ produced' = "none"
                ELSE LET next == evaluator(state, evaluation_result)
                     IN  /\ produced' = evaluation_result.outcome
                         /\ state' = next
                         /\ pc' = route_after_evaluator(next)

\* respond, then the edge to END.  chain.ainvoke is in no try block.
respond(st) == [st EXCEPT !.messages = add_messages(@, <<"ai">>), !.is_complete = TRUE]

ResponderStage ==
    /\ pc = "responder"
    /\ Invoke("responder")
    /\ UNCHANGED <<produced, batch, gate, bridge, planned, store, puts, reply, run_config, sessions>>
    /\ answered' = NoAnswer
    /\ \/ Abort
       \/ /\ state' = respond(state)
          /\ pc' = "END"

Next ==
    \/ Start
    \/ ClassifierStage
    \/ CommandGeneratorStage
    \/ PlannerStage
    \/ ExecutorStage
    \/ EvaluatorStage
    \/ ResponderStage

Spec == Init /\ [][Next]_vars

\* The graph driver runs the next node as long as there is one.
FairSpec == Spec /\ WF_vars(Next)

\* ------------------------------------------- the routing functions alone
\* Every AgentState value a routing function can be handed: intent and
\* evaluation_outcome in the enum, absent, None or outside the enum; plan
\* absent, a list, a dict with or without steps.
RouterPlans ==
    {PlanMissing, PlanList, PlanEmptyDict}
    \cup {PlanDict(steps, "goal") : steps \in SeqsUpTo({PlanStepDict(NONE)}, MaxSteps)}

RouterStates ==
    [messages : {<<"user">>}, intent : Intents \cup {MISSING, NONE, "bogus"},
     command : {""}, plan : RouterPlans, current_step : {0}, tool_results : {<<>>},
     evaluation_outcome : Outcomes \cup {MISSING, NONE, "bogus"}, is_complete : {FALSE}, iteration_count : {0}]

RouterNames ==
    {"route_after_classifier", "route_after_planner", "route_after_executor",
     "route_after_evaluator"}

InitRouter ==
    /\ pc = "call"
    /\ state \in RouterStates
    /\ runs = NoRuns
    /\ trace = <<>>
    /\ last = "none"
    /\ produced = "none"
    /\ batch = <<>>
    /\ gate = NoGate
    /\ bridge = <<>>
    /\ planned = NoPlanned
    /\ store = <<>>
    /\ puts = NoPuts
    /\ reply = NoReply
    /\ run_config = NoConfig
    /\ sessions = NoSessions
    /\ answered = NoAnswer

\* One routing function is applied to the state; pc holds what it returned.
Route(name, result) ==
    /\ pc = "call"
    /\ last' = name
    /\ pc' = result
    /\ UNCHANGED <<state, runs, trace, produced, batch, gate, bridge, planned, store, puts, reply, run_config, sessions, answered>>

NextRouter ==
    \/ Route("route_after_classifier", route_after_classifier(state))
    \/ Route("route_after_planner", route_after_planner(state))
    \/ Route("route_after_executor", route_after_executor(state))
    \/ Route("route_after_evaluator", route_after_evaluator(state))

SpecRouter == InitRouter /\ [][NextRouter]_vars

\* ----------------------------------- the stages on every AgentState value
\* The executor stage on every plan, the evaluator stage on every combination
\* of plan length, step cursor and results, and whatever stages follow.
EvaluatedResults ==
    [status : {"completed"}, error : {NONE}, tool_name : {"low_tool"}]
    \cup [status : {"running"}, error : {"str(result)"}, tool_name : {"low_tool"}]
    \cup [status : {"failed"}, error : {"permission denied", ErrNotFound, MISSING},
          tool_name : {MISSING}]
    \cup [status : {"skipped"}, error : {ErrConfirm, ErrPermission, MISSING, NONE},
          tool_name : {MISSING}]

EvaluatedPlans ==
    {PlanMissing, PlanList, PlanEmptyDict}
    \cup {PlanDict(steps, "goal") : steps \in SeqsUpTo({PlanStepDict(NONE)}, MaxSteps)}

\* The steps of the plans the executor stage is run on: no tool, a tool above
\* the permission level of the caller, a tool of the default danger level,
\* and a step that asks for confirmation (checked before the tool is looked up).
ExecutedSteps ==
    [tool_name : {NONE, "shell_exec", "low_tool"}, requires_confirmation : {FALSE}]
    \cup [tool_name : {"shell_exec"}, requires_confirmation : {TRUE}]

ExecutedPlans ==
    {PlanMissing, PlanList, PlanEmptyDict}
    \cup {PlanDict(steps, "goal") : steps \in SeqsUpTo(ExecutedSteps, MaxSteps)}

EvaluatorInputs ==
    [messages : {<<"user">>}, intent : {"workflow"}, command : {""},
     plan : EvaluatedPlans, current_step : 0..MaxCursor,
     tool_results : SeqsUpTo(EvaluatedResults, MaxSteps),
     evaluation_outcome : {NONE}, is_complete : {FALSE}, iteration_count : {0}]

ExecutorInputs ==
    [messages : {<<"user">>}, intent : {"workflow"}, command : {""},
     plan : ExecutedPlans, current_step : {1},
     tool_results : {<<>>}, evaluation_outcome : {NONE}, is_complete : {FALSE}, iteration_count : {0}]
    \cup [messages : {<<"user">>}, intent : {"command"}, command : {""},
          plan : {PlanDict(<<[tool_name |-> "low_tool", requires_confirmation |-> FALSE]>>,
                           "goal")},
          current_step : {1},
          tool_results : {<<>>}, evaluation_outcome : {NONE}, is_complete : {FALSE}, iteration_count : {0}]

InitStage ==
    /\ \/ pc = "evaluator" /\ state \in EvaluatorInputs
       \/ pc = "executor" /\ state \in ExecutorInputs
    /\ runs = NoRuns
    /\ trace = <<>>
    /\ last = "none"
    /\ produced = "none"
    /\ batch = <<>>
    /\ gate = NoGate
    /\ bridge = <<>>
    /\ planned = NoPlanned
    /\ store = <<>>
    /\ puts = NoPuts
    /\ reply = NoReply
    /\ run_config = NoConfig
    /\ sessions = NoSessions
    /\ answered = NoAnswer

NextStage ==
    \/ PlannerStage
    \/ ExecutorStage
    \/ EvaluatorStage
    \/ ResponderStage

SpecStage == InitStage /\ [][NextStage]_vars

\* ------------------------------------------------------ the safety gate alone
\* Commands: optional blank, a head, a free tail, optional blank.
CommandHeads ==
    {<<"l", "s">>,
     <<"p", "w", "d">>,
     <<"e", "c", "h", "o">>,
     <<"c", "a", "t">>,
     <<"g", "r", "e", "p">>,
     <<"f", "i", "n", "d">>,
     <<"g", "i", "t", " ", "s", "t", "a", "t", "u", "s">>,
     <<"g", "i", "t", " ", "l", "o", "g">>,
     <<"g", "i", "t", " ", "d", "i", "f", "f">>,
     <<"g", "i", "t", " ", "s", "h", "o", "w">>,
     <<"n", "p", "m", " ", "l", "i", "s", "t">>,
     <<"p", "i", "p", " ", "l", "i", "s", "t">>,
     <<"r", "m">>,
     <<"r", "m", " ", "-", "r", "f", " ", "/">>,
     <<"g", "i", "t">>,
     <<>>}

TailChars == {" ", "a", ";", "$"}

Blanks == {<<>>, <<" ">>}

Commands ==
    {l \o h \o t \o r : l \in Blanks, h \in CommandHeads,
                        t \in SeqsUpTo(TailChars, MaxTail), r \in Blanks}

InitGate ==
    /\ gate \in [called : {FALSE}, command : Commands, answer : {NoGate.answer},
                 result : {NoGate.result}]
    /\ pc = "call"
    /\ state \in [messages : {<<"user">>}, intent : {"command"}, command : {""},
                  plan : {PlanEmptyDict}, current_step : {0}, tool_results : {<<>>},
                  evaluation_outcome : {NONE}, is_complete : {FALSE}, iteration_count : {0}]
    /\ runs = NoRuns
    /\ trace = <<>>
    /\ last = "none"
    /\ produced = "none"
    /\ batch = <<>>
    /\ bridge = <<>>
    /\ planned = NoPlanned
    /\ store = <<>>
    /\ puts = NoPuts
    /\ reply = NoReply
    /\ run_config = NoConfig
    /\ sessions = NoSessions
    /\ answered = NoAnswer

\* is_safe_command is called on the command; the completion service, if
\* asked, gives `answer`.
CheckCommand ==
    /\ pc = "call"
    /\ \E answer \in SafetyAnswers :
         gate' = [gate EXCEPT !.called = TRUE, !.answer = answer,
                              !.result = is_safe_command(gate.command, answer)]
    /\ pc' = "returned"
    /\ UNCHANGED <<state, runs, trace, last, produced, batch, bridge, planned, store, puts, reply, run_config, sessions, answered>>

NextGate == CheckCommand

SpecGate == InitGate /\ [][NextGate]_vars

\* ------------------------------------------ the shell tool and the safety gate
\* A caller holding a command may ask the safety gate about it and may hand
\* it to the shell tool (tool.ainvoke of scripts/verify_shell_tool.py, or
\* tool.execute of the executor); nothing in the tool ties the two together.
RunShellTool ==
    /\ pc \in {"call", "returned"}
    /\ \E outcome \in BridgeOutcomes :
         LET run == ShellTool_arun(gate.command, outcome)
         IN  /\ bridge' = bridge \o run.sent
             /\ pc' = IF run.result = RAISE THEN "shell_raised" ELSE "shell_returned"
    /\ UNCHANGED <<state, runs, trace, last, produced, batch, gate, planned, store, puts, reply, run_config, sessions, answered>>

NextShell == CheckCommand \/ RunShellTool

SpecShell == InitGate /\ [][NextShell]_vars

\* ------------------------------------------------------ create_plan alone
InitPlanner ==
    /\ planned \in [called : {FALSE}, messages : InitialMessages, in : PlanInputs,
                    answer : PlanAnswers, plan : {PlanRaised}]
    /\ pc = "call"
    /\ state \in [messages : {<<"user">>}, intent : {"workflow"}, command : {""},
                  plan : {PlanEmptyDict}, current_step : {0}, tool_results : {<<>>},
                  evaluation_outcome : {NONE}, is_complete : {FALSE}, iteration_count : {0}]
    /\ runs = NoRuns
    /\ trace = <<>>
    /\ last = "none"
    /\ produced = "none"
    /\ batch = <<>>
    /\ gate = NoGate
    /\ bridge = <<>>
    /\ store = <<>>
    /\ puts = NoPuts
    /\ reply = NoReply
    /\ run_config = NoConfig
    /\ sessions = NoSessions
    /\ answered = NoAnswer

\* PlannerNode.create_plan is called on the messages; the completion service,
\* if asked, gives planned.answer.
CreatePlan ==
    /\ pc = "call"
    /\ planned' = [planned EXCEPT
                     !.called = TRUE,
                     !.plan = create_plan(planned.messages, planned.in, planned.answer)]
    /\ pc' = "returned"
    /\ UNCHANGED <<state, runs, trace, last, produced, batch, gate, bridge, store, puts, reply, run_config, sessions, answered>>

NextPlanner == CreatePlan

SpecPlanner == InitPlanner /\ [][NextPlanner]_vars

\* ------------------------------------------------------- the checkpointer alone
\* A caller of a PostgresCheckpointSaver built on a database session: some
\* aput calls, then one aget or alist call (a query changes no row, so the
\* calls that could follow it meet the same tables).
InitCheckpoint ==
    /\ store = <<>>
    /\ puts = NoPuts
    /\ reply = NoReply
    /\ run_config = NoConfig
    /\ sessions = NoSessions
    /\ answered = NoAnswer
    /\ pc = "idle"
    /\ state \in [messages : {<<"user">>}, intent : {"workflow"}, command : {""},
                  plan : {PlanEmptyDict}, current_step : {0}, tool_results : {<<>>},
                  evaluation_outcome : {NONE}, is_complete : {FALSE}, iteration_count : {0}]
    /\ runs = NoRuns
    /\ trace = <<>>
    /\ last = "none"
    /\ produced = "none"
    /\ batch = <<>>
    /\ gate = NoGate
    /\ bridge = <<>>
    /\ planned = NoPlanned

PutsMade == puts["thread_a"].n + puts["thread_b"].n

\* The checkpoint ids a caller can hold: none, one of a stored row, one
\* that no row has.
KnownIds == 0..(Len(store) + 1)

Put ==
    /\ pc = "idle"
    /\ PutsMade < MaxPuts
    /\ \E t \in Threads, parent \in 0..Len(store), values \in ChannelValues,
          writes \in MetadataWrites :
         LET done == aput(store, Config(t, parent), values, writes)
         IN  /\ store' = done.rows
             /\ reply' = done.reply
             /\ puts' = [puts EXCEPT ![t] = [n |-> @.n + 1, last |-> <<values>>]]
    /\ UNCHANGED <<pc, state, runs, trace, last, produced, batch, gate, bridge, planned,
                   run_config, sessions, answered>>

GetCheckpoint ==
    /\ pc = "idle"
    /\ \E t \in Threads \cup {NONE}, id \in KnownIds :
         reply' = aget(store, Config(t, id))
    /\ pc' = "queried"
    /\ UNCHANGED <<state, runs, trace, last, produced, batch, gate, bridge, planned,
                   store, puts, run_config, sessions, answered>>

ListCheckpoints ==
    /\ pc = "idle"
    /\ \E t \in Threads \cup {NONE}, limit \in 0..MaxLimit, before \in KnownIds :
         reply' = alist(store, Config(t, NoId), limit, Config(NONE, before))
    /\ pc' = "queried"
    /\ UNCHANGED <<state, runs, trace, last, produced, batch, gate, bridge, planned,
                   store, puts, run_config, sessions, answered>>

NextCheckpoint == Put \/ GetCheckpoint \/ ListCheckpoints

SpecCheckpoint == InitCheckpoint /\ [][NextCheckpoint]_vars

\* ------------------------------------------------- a run given a checkpoint id
\* stream_agent_with_checkpoint: the table holds a checkpoint of the session,
\* the request names it (or names none).  The endpoint builds initial_state
\* from the message of the request as for every run, puts the checkpoint id
\* into the config and calls agent_app.astream(initial_state, config) on the
\* graph that workflow.compile() built with no checkpointer.
ResumeInitialStates ==
    [messages : {<<"user">>}, intent : {"unknown"}, command : {""},
     plan : {PlanEmptyDict}, current_step : {0}, tool_results : {<<>>},
     evaluation_outcome : {NONE}, is_complete : {FALSE}, iteration_count : {0}]

InitResume ==
    /\ \E values \in ChannelValues, writes \in MetadataWrites :
         store = aput(<<>>, Config("thread_a", NoId), values, writes).rows
    /\ store # <<>>
    /\ run_config \in {Config("thread_a", id) : id \in {NoId, store[1].id}}
    /\ sessions = NoSessions
    /\ answered = NoAnswer
    /\ pc = "START"
    /\ state \in ResumeInitialStates
    /\ runs = NoRuns
    /\ trace = <<>>
    /\ last = "none"
    /\ produced = "none"
    /\ batch = <<>>
    /\ gate = NoGate
    /\ bridge = <<>>
    /\ planned = NoPlanned
    /\ puts = NoPuts
    /\ reply = NoReply

SpecResume == InitResume /\ [][Next]_vars

\* ------------------------------------------------------- concurrent sessions
\* Two requests handled at the same time: each calls app.ainvoke with the
\* initial_state it built, and the event loop interleaves the node calls of
\* the two runs.  The graph, the three node objects and the tool registry
\* are module-level objects shared by the runs; none of them keeps a field
\* that a node call writes.
\* What the collaborators answer to the node calls of one session.
SessionScripts ==
    [text : {"command", "question", "workflow", RAISE},
     command : {"ls -la"},
     plan_in : {[readable |-> TRUE, simple |-> FALSE]},
     plan_answer : {[kind |-> "garbage", steps |-> <<>>],
                    [kind |-> "json",
                     steps |-> <<[has_description |-> TRUE, tool_name |-> NONE,
                                  requires_confirmation |-> FALSE]>>]},
     behaviour : {[tool |-> [kind |-> "str", text |-> NONE], repo |-> "none",
                   has_danger_level |-> FALSE]},
     answer : {[kind |-> "json", is_recoverable |-> "true", goal_achieved |-> "true"],
               [kind |-> "garbage", is_recoverable |-> "absent", goal_achieved |-> "absent"]},
     responder_raises : {FALSE}]

SessionInitialStates ==
    [messages : {<<"user">>, <<"user", "ai", "user">>}, intent : {"unknown"}, command : {""},
     plan : {PlanEmptyDict}, current_step : {0}, tool_results : {<<>>},
     evaluation_outcome : {NONE}, is_complete : {FALSE}, iteration_count : {0}]

SessionOver(at) == at \notin Stages \cup {"START"}

\* One node call of a run and the edge after it, as a function of the state
\* the node is handed and of the answers of the collaborators.
StageStep(stage, st, a) ==
    LET error == [pc |-> "error", state |-> st]
    IN  CASE stage = "START" -> [pc |-> "classifier", state |-> st]
          [] stage = "classifier" ->
               IF Len(st.messages) > 0 /\ a.text = RAISE THEN error
               ELSE LET next == [st EXCEPT !.intent = classify_intent(st.messages, a.text)]
                    IN  [pc |-> route_after_classifier(next), state |-> next]
          [] stage = "command_generator" ->
               [pc |-> edge_after_command_generator, state |-> generate_command(st, a.command)]
          [] stage = "planner" ->
               LET plan == create_plan(st.messages, a.plan_in, a.plan_answer)
               IN  IF plan.raised THEN error
                   ELSE LET next == planner(st, plan)
                        IN  [pc |-> route_after_planner(next), state |-> next]
          [] stage = "executor" ->
               IF st.plan.type \notin {"missing", "dict"} THEN error
               ELSE LET done == execute_plan(st.plan,
                                             [i \in 1..Len(st.plan.steps) |-> a.behaviour])
                    IN  IF BatchRaised(done) THEN error
                        ELSE LET next == executor(st, ResultDicts(done))
                             IN  [pc |-> route_after_executor(next), state |-> next]
          [] stage = "evaluator" ->
               LET evaluation_result == evaluate(st, st.tool_results, a.answer)
               IN  IF evaluation_result.raised THEN error
                   ELSE LET next == evaluator(st, evaluation_result)
                        IN  [pc |-> route_after_evaluator(next), state |-> next]
          [] stage = "responder" ->
               IF a.responder_raises THEN error
               ELSE [pc |-> "END", state |-> respond(st)]
          [] OTHER -> [pc |-> stage, state |-> st]

\* A variant of the operator below: the nodes work on one state shared by
\* the runs, that of session_a.
StateOf_shared(all, s) == all["session_a"].state

\* The state a node call of session s is handed: the state of its own run
\* (graph.ainvoke keeps the channels of a run in the run).
StateOf(all, s) == all[s].state

InitSessions ==
    /\ sessions \in [SessionIds ->
                      [pc : {"START"}, state : SessionInitialStates, hops : {0},
                       script : SessionScripts, initial : SessionInitialStates]]
    /\ \A s \in SessionIds : sessions[s].initial = sessions[s].state
    /\ pc = "sessions"
    /\ state \in ResumeInitialStates
    /\ runs = NoRuns
    /\ trace = <<>>
    /\ last = "none"
    /\ produced = "none"
    /\ batch = <<>>
    /\ gate = NoGate
    /\ bridge = <<>>
    /\ planned = NoPlanned
    /\ store = <<>>
    /\ puts = NoPuts
    /\ reply = NoReply
    /\ run_config = NoConfig
    /\ answered = NoAnswer

\* The event loop runs the next node call of session s.
SessionStep(s) ==
    /\ ~SessionOver(sessions[s].pc)
    /\ sessions[s].hops < MaxHops
    /\ LET done == StageStep(sessions[s].pc, StateOf(sessions, s), sessions[s].script)
       IN  sessions' = [sessions EXCEPT ![s] = [@ EXCEPT !.pc = done.pc,
                                                         !.state = done.state,
                                                         !.hops = @ + 1]]
    /\ UNCHANGED <<pc, state, runs, trace, last, produced, batch, gate, bridge, planned,
                   store, puts, reply, run_config, answered>>

NextSessions == \E s \in SessionIds : SessionStep(s)

SpecSessions == InitSessions /\ [][NextSessions]_vars

\* ------------------------------------------------------------------ claims

\* C1: for every AgentState value each routing function returns one of the
\* defined stage names, and an intent or outcome that is absent or outside
\* its enum routes to responder.
C1_RouterTotal ==
    last \in RouterNames =>
        /\ pc \in Stages
        /\ (last = "route_after_classifier" /\ state.intent \notin Intents
                => pc = "responder")
        /\ (last = "route_after_evaluator" /\ state.evaluation_outcome \notin Outcomes
                => pc = "responder")

\* C2: every run eventually executes responder and reaches END; the planner,
\* executor, evaluator cycle does not repeat forever.  (A run that an escaping
\* exception ends is counted as ended here, so that only a run that goes on
\* forever violates the formula.)
C2_RunReachesEnd == <>(pc \in {"END", "error"})

\* C3: is_complete is true only if the responder stage has already executed
\* in the run.
C3_CompleteOnlyAfterResponder == state.is_complete => runs["responder"] > 0

\* C5: after the classifier stage the next stage is command_generator iff
\* intent = command, planner iff intent = workflow, responder otherwise.
C5_ClassifierRouting ==
    (last = "classifier" /\ pc # "error") =>
        /\ (pc = "command_generator" <=> state.intent = "command")
        /\ (pc = "planner" <=> state.intent = "workflow")
        /\ (state.intent \notin {"command", "workflow"} => pc = "responder")

C5_Witness == last = "classifier" /\ state.intent = "confirmation" /\ pc = "responder"

\* C7: after the planner stage the next stage is executor iff the plan just
\* produced has at least one step; with no steps it is responder.
C7_PlannerRouting ==
    (last = "planner" /\ pc # "error") =>
        /\ (pc = "executor" <=> Len(state.plan.steps) > 0)
        /\ (Len(state.plan.steps) = 0 => pc = "responder")

C7_Witness == last = "planner" /\ Len(state.plan.steps) = 0 /\ pc = "responder"

\* C8: in a run whose classifier yields intent = command the stages executed
\* are classifier, command_generator, responder, once each and in that order,
\* then END; planner, executor and evaluator are never executed.
CommandFlow == <<"classifier", "command_generator", "responder">>

SomeFailed(results) == \E i \in 1..Len(results) : results[i].status = "failed"

C4_FailedNeverContinues ==
    (last = "evaluator" /\ pc # "error" /\ SomeFailed(state.tool_results))
        => produced \notin {"continue_execution", "goal_achieved"}

C4_Witness ==
    /\ last = "evaluator"
    /\ Len(state.tool_results) = 2
    /\ state.tool_results[1].status = "failed"
    /\ state.tool_results[2].status = "completed"
    /\ produced = "needs_replanning"

\* C6: after the evaluator stage the next stage is the one the outcome of
\* this evaluator invocation selects: executor for continue_execution, planner
\* for needs_replanning, responder for goal_achieved, fatal_error, incomplete.
C6_EvaluatorRouting ==
    (last = "evaluator" /\ pc # "error") =>
        /\ produced \in Outcomes
        /\ (produced = "continue_execution" => pc = "executor")
        /\ (produced = "needs_replanning" => pc = "planner")
        /\ (produced \in {"goal_achieved", "fatal_error", "incomplete"} => pc = "responder")

C6_Witness == last = "evaluator" /\ produced = "continue_execution" /\ pc = "executor"

\* C9: for a command the allowlist does not accept, is_safe_command returns
\* UNSAFE whenever the completion service raises or returns text that is not
\* the structured answer {safe: bool, ...}, and SAFE only when the answer's
\* safe member is true.
StructuredAnswer(answer) ==
    answer.kind = "text" /\ answer.payload = "dict" /\ answer.safe \in {"true", "false"}

C9_FailClosed ==
    (gate.called /\ gate.result.llm_called) =>
        /\ (~StructuredAnswer(gate.answer) => Classification(gate.result) = "UNSAFE")
        /\ (Classification(gate.result) = "SAFE" => gate.answer.safe = "true")

\* C10: a command without dangerous characters that is a safe prefix, or a
\* safe prefix followed by a space and more text, is SAFE with the whitelisted
\* reason and no completion service call; a command holding a dangerous
\* character is never accepted by the allowlist.
PrefixCommand(command) ==
    \E prefix \in SAFE_PREFIXES :
        \/ command = prefix
        \/ /\ Len(command) > Len(prefix)
           /\ \A i \in 1..Len(prefix) : command[i] = prefix[i]
           /\ command[Len(prefix) + 1] = " "

C10_Allowlist ==
    gate.called =>
        /\ ((\A i \in 1..Len(gate.command) : gate.command[i] \notin DangerousChars)
              /\ PrefixCommand(gate.command)
            => /\ gate.result.is_safe = "true"
               /\ gate.result.reason = WhitelistedReason
               /\ ~gate.result.llm_called)
        /\ ((\E i \in 1..Len(gate.command) : gate.command[i] \in DangerousChars)
            => gate.result.reason # WhitelistedReason)

C10_Witness ==
    /\ gate.called
    /\ gate.command = <<"l", "s", " ", "a">>
    /\ gate.result.reason = WhitelistedReason

\* C11: is_safe_command on the command rm -rf / returns UNSAFE, whatever the
\* completion service does.
RmRf == <<"r", "m", " ", "-", "r", "f", " ", "/">>

C11_RmRfUnsafe ==
    (gate.called /\ gate.command = RmRf) => Classification(gate.result) = "UNSAFE"

\* C12: a shell command reaches the bridge only if is_safe_command was
\* evaluated on that command before and classified it SAFE.
C12_GateBeforeBridge ==
    \A i \in 1..Len(bridge) :
        /\ gate.called
        /\ shlex_split(gate.command) = <<bridge[i].cmd>> \o bridge[i].args
        /\ Classification(gate.result) = "SAFE"

\* C13: create_plan never raises: for every behaviour of the completion
\* service it returns a Plan.
C13_PlannerNeverRaises == planned.called => ~planned.plan.raised

\* C14: for a completion text that parses neither as a whole nor by a line
\* with a steps key, the planner returns a plan with exactly one step and a
\* goal that is not empty.
C14_FallbackOneStep ==
    (planned.called /\ planned.answer.kind = "garbage" /\ ~planned.plan.raised
       /\ Len(planned.messages) > 0 /\ planned.messages[Len(planned.messages)] = "user")
        => /\ Len(planned.plan.steps) = 1
           /\ planned.plan.goal \notin {"", NONE}

\* C15: the results execute_plan returns are one per plan step, the i-th
\* being a result of the i-th step of plan.steps.
ResultsOfStep(step_data) ==
    {ResultDict(_execute_step(step_data, b)) : b \in StepBehaviours}

C15_ResultsInStepOrder ==
    (last = "executor" /\ pc # "error") =>
        /\ Len(state.tool_results) = Len(state.plan.steps)
        /\ \A i \in 1..Len(state.plan.steps) :
             state.tool_results[i] \in ResultsOfStep(state.plan.steps[i])

C15_Witness ==
    /\ last = "executor"
    /\ pc = "evaluator"
    /\ Len(state.plan.steps) = 2
    /\ state.tool_results[1].status = "skipped"
    /\ state.tool_results[2].status = "completed"

\* C16: for every tool-call record the executor creates, the repository
\* calls on it are create, mark_running, then exactly one terminal call
\* (mark_completed or mark_failed), whatever the tool returns or raises.
C16_OneTerminalCall ==
    \A i \in 1..Len(batch) :
        batch[i].invoked =>
            /\ Len(batch[i].calls) = 3
            /\ batch[i].calls[1] = "create"
            /\ batch[i].calls[2] = "mark_running"
            /\ batch[i].calls[3] \in {"mark_completed", "mark_failed"}

\* C17: every aput adds one row with a fresh checkpoint id whose parent is
\* the checkpoint id of the config given, and succeeds: n puts on a thread
\* leave n checkpoints of that thread.  (Stated for channel values that the
\* JSON column can hold.)
C17_PutAddsRow ==
    (reply.op = "put" /\ JsonSerializable(puts[reply.config.thread_id].last[1])) =>
        /\ ~reply.raised
        /\ Len(reply.rows) = 1
        /\ store[Len(store)] = reply.rows[1]
        /\ reply.rows[1].parent_checkpoint_id = reply.config.checkpoint_id
        /\ reply.new_config = Config(reply.config.thread_id, reply.rows[1].id)
        /\ \A i \in 1..(Len(store) - 1) : store[i].id # reply.rows[1].id

\* C18: aget with a thread id and no checkpoint id returns the checkpoint of
\* the last put on that thread, and nothing when the thread has none.
\* (Stated for channel values that the JSON column can hold.)
C18_GetLatest ==
    (reply.op = "get" /\ reply.config.checkpoint_id = NoId /\ reply.config.thread_id # NONE) =>
        LET made == puts[reply.config.thread_id]
        IN  IF made.n = 0 THEN reply.rows = <<>>
            ELSE JsonSerializable(made.last[1]) =>
                   /\ Len(reply.rows) = 1
                   /\ reply.rows[1].checkpoint = made.last[1]

\* C19: alist returns at most limit checkpoints of the thread, the most
\* recent ones among those created before the `before` checkpoint if that
\* exists, oldest first; and the empty list when no thread id is given.
BeforeRows == {r \in RowSet(store) : r.id = reply.before.checkpoint_id}

Eligible ==
    {r \in RowSet(store) :
        /\ r.thread_id = reply.config.thread_id
        /\ \A b \in BeforeRows : r.created_at < b.created_at}

C20_RoundTrip ==
    (reply.op = "get" /\ reply.config.checkpoint_id = NoId /\ reply.config.thread_id # NONE
       /\ puts[reply.config.thread_id].n = 1) =>
        LET given == puts[reply.config.thread_id].last[1]
        IN  /\ Len(reply.rows) = 1
            /\ reply.rows[1].checkpoint.messages = given.messages
            /\ reply.rows[1].checkpoint.intent = given.intent
            /\ reply.rows[1].checkpoint.plan = given.plan
            /\ reply.rows[1].checkpoint.current_step = given.current_step

\* C21: a run started with the checkpoint id of a stored checkpoint enters
\* the graph at the stage recorded as the next node of that checkpoint, with
\* the intent and step cursor stored in it; the first stage it invokes is
\* not the classifier on a fresh initial state.
C21_ResumeFromCheckpoint ==
    \A i \in 1..Len(store) :
        (store[i].id = run_config.checkpoint_id /\ store[i].next_node # NONE /\ Len(trace) = 1) =>
            /\ trace[1] = store[i].next_node
            /\ pc = trace[1] => /\ state.intent = store[i].checkpoint.intent
                                /\ state.current_step = store[i].checkpoint.current_step

\* C22: messages is append-only: every stage transition leaves the messages
\* it found as a prefix of the messages it leaves; none is removed,
\* reordered or overwritten.
IsPrefix(s, t) == Len(s) <= Len(t) /\ \A i \in 1..Len(s) : t[i] = s[i]

C22_MessagesAppendOnly == [][IsPrefix(state.messages, state'.messages)]_vars

C22_Witness ==
    /\ pc = "END"
    /\ runs["command_generator"] = 1
    /\ state.messages = <<"user", "ai", "user", "ai", "ai">>

\* C23: sessions that run the graph at the same time do not touch each
\* other: under every interleaving of their node calls, each session is,
\* after each of its node calls, in the position and AgentState it reaches
\* when run alone from its initial state with the same collaborator answers.
RECURSIVE RunAlone(_, _, _)
RunAlone(at, script, k) ==
    IF k = 0 \/ SessionOver(at.pc) THEN at
    ELSE RunAlone(StageStep(at.pc, at.state, script), script, k - 1)

C24_FailureAnsweredByResponder ==
    (pc \in {"END", "error"}) =>
        /\ pc = "END"
        /\ last = "responder"
        /\ Len(state.messages) > 0
        /\ state.messages[Len(state.messages)] = "ai"

C26_PermissionDeniedReplans ==
    ( /\ trace = <<"evaluator">>
      /\ Len(state.plan.steps) = 2
      /\ Len(state.tool_results) >= 1
      /\ state.tool_results[1].status = "failed"
      /\ state.tool_results[1].error = "permission denied" )
        => produced = "needs_replanning"

\* C27: when some result is failed and the recoverability classification
\* fails (the completion service raises, or returns text that holds no
\* structured answer), the outcome of the evaluator is needs_replanning.
ClassificationFailed(kind) == kind \in {"raise", "nonstring", "garbage"}

C27_ErrorDefaultReplans ==
    ( /\ last = "evaluator"
      /\ pc # "error"
      /\ SomeFailed(state.tool_results)
      /\ ClassificationFailed(answered) )
        => produced = "needs_replanning"

\* C28: an evaluator invocation that finds no failed result and
\* current_step >= the number of steps, and whose goal-met classification
\* fails (the completion service raises or returns unparseable text), has
\* the outcome goal_achieved.
C28_CompletionDefaultAchieved ==
    [][ ( /\ pc = "evaluator"
          /\ pc' # "error"
          /\ Len(state.tool_results) >= 1
          /\ ~SomeFailed(state.tool_results)
          /\ state.current_step >= Len(state.plan.steps)
          /\ ClassificationFailed(answered') )
            => produced' = "goal_achieved" ]_vars

\* C29: an evaluator invocation that finds no failed result and
\* current_step < the number of steps decides by the most recent result
\* alone: completed gives continue_execution and current_step + 1; skipped
\* gives needs_replanning and the same current_step if the skip reason
\* mentions confirmation or permission, else continue_execution and
\* current_step + 1.  (Skip reasons are texts, or absent.)
SkipEscalates(reason) == reason \in {ErrConfirm, ErrPermission}

C29_ProgressByLatestResult ==
    [][ ( /\ pc = "evaluator"
          /\ Len(state.tool_results) >= 1
          /\ ~SomeFailed(state.tool_results)
          /\ state.current_step < Len(state.plan.steps) )
            => LET latest == state.tool_results[Len(state.tool_results)]
                   advanced == /\ produced' = "continue_execution"
                               /\ state'.current_step = state.current_step + 1
                   replanned == /\ produced' = "needs_replanning"
                                /\ state'.current_step = state.current_step
               IN  /\ latest.status = "completed" => advanced
                   /\ (latest.status = "skipped" /\ latest.error # NONE) =>
                        IF SkipEscalates(latest.error) THEN replanned ELSE advanced ]_vars

C29_Witness ==
    /\ last = "evaluator"
    /\ produced = "needs_replanning"
    /\ Len(state.tool_results) = 2
    /\ ~SomeFailed(state.tool_results)
    /\ state.tool_results[1].status = "completed"
    /\ state.tool_results[2].status = "skipped"
    /\ state.tool_results[2].error = ErrPermission
    /\ state.current_step = 1
    /\ Len(state.plan.steps) = 2

\* C30: between one planner invocation and the next, the tool of a plan
\* step is invoked at most once: an executor invocation that follows an
\* evaluation with outcome continue_execution invokes no tool that the
\* executor invocation before it invoked.
C30_StepInvokedOnce ==
    [][ ( /\ pc = "executor"
          /\ last = "evaluator"
          /\ produced = "continue_execution" )
            => \A i \in 1..Len(batch') :
                 i <= Len(batch) => ~(batch[i].invoked /\ batch'[i].invoked) ]_vars

\* C31: a step that the completion service marked requires_confirmation
\* reaches the executor with the flag set: in a plan built from the steps
\* of the answer, step i requires confirmation whenever step i of the
\* answer does (and the executor then skips it without invoking a tool).
BuiltFromAnswer ==
    /\ planned.called
    /\ ~planned.plan.raised
    /\ planned.answer.kind \in {"json", "line"}
    /\ planned.plan.goal = "plan_data.goal"
    /\ Len(planned.plan.steps) = Len(planned.answer.steps)

C31_ConfirmationKept ==
    BuiltFromAnswer =>
        \A i \in 1..Len(planned.answer.steps) :
            planned.answer.steps[i].requires_confirmation
                => /\ planned.plan.steps[i].requires_confirmation
                   /\ \A b \in StepBehaviours :
                        LET r == _execute_step(planned.plan.steps[i], b)
                        IN  /\ ~r.raised /\ r.status = "skipped" /\ r.error = ErrConfirm
                            /\ ~r.invoked /\ r.calls = <<>>

\* C32: the executor never invokes, and creates no tool-call record for, a
\* registered tool whose danger level exceeds the permission level 1 it
\* works with (shell_exec, file_ops): the step is skipped.
HighDanger(tool_name) ==
    tool_name \in Registered /\ danger_level(tool_name) > UserPermissionLevel

C32_DangerousToolSkipped ==
    last = "executor" =>
        \A i \in 1..Len(batch) :
            HighDanger(state.plan.steps[i].tool_name) =>
                /\ ~batch[i].invoked
                /\ batch[i].calls = <<>>
                /\ pc # "error" => state.tool_results[i].status = "skipped"

\* C33: a plan step whose tool_name is null (an information-only step, as
\* the step of the fallback plan) gets a completed result from the
\* executor, with no tool invoked; never a failed one.
C33_NullToolCompleted ==
    (last = "executor" /\ pc # "error") =>
        \A i \in 1..Len(state.tool_results) :
            ( /\ state.plan.steps[i].tool_name = NONE
              /\ ~state.plan.steps[i].requires_confirmation )
                => /\ state.tool_results[i].status = "completed"
                   /\ ~batch[i].invoked

\* C34: every result the executor returns has the status completed, failed
\* or skipped, whatever the tool returned.
C34_ResultStatusTerminal ==
    (last = "executor" /\ pc # "error") =>
        \A i \in 1..Len(state.tool_results) :
            state.tool_results[i].status \in {"completed", "failed", "skipped"}

\* C35: no exception of a tool invocation or of a repository write leaves
\* the executor stage: an executor invocation on a plan it can read ends
\* with results, one per step, not with an exception.
C35_ExecutorContainsFailures ==
    (last = "executor" /\ state.plan.type \in {"missing", "dict"}) =>
        /\ pc # "error"
        /\ Len(state.tool_results) = Len(state.plan.steps)

\* C36: a plan generated from an answer of the completion service requires
\* confirmation exactly if the answer set a confirmation flag or one of its
\* steps is bound to a tool whose danger level exceeds the permission
\* level of the caller.
PlanGenerated ==
    /\ planned.called
    /\ ~planned.plan.raised
    /\ planned.answer.kind \in {"json", "line"}
    /\ Len(planned.messages) > 0
    /\ planned.messages[Len(planned.messages)] \in {"user", "user_blank"}

C36_ConfirmationPropagated ==
    PlanGenerated =>
        ( planned.plan.requires_confirmation
            <=> \E i \in 1..Len(planned.answer.steps) :
                  \/ planned.answer.steps[i].requires_confirmation
                  \/ HighDanger(planned.answer.steps[i].tool_name) )

\* C37: iteration_count counts the evaluator invocations of a run: at END
\* it equals the number of times the evaluator stage ran.
C37_IterationCounted ==
    pc = "END" => state.iteration_count = runs["evaluator"]

\* C38: execute_plan attempts every step of the plan: after an executor
\* invocation there is one attempt per plan step, whatever happened to the
\* earlier steps.
C38_EveryStepAttempted ==
    (last = "executor" /\ state.plan.type \in {"missing", "dict"}) =>
        Len(batch) = Len(IF state.plan.has_steps THEN state.plan.steps ELSE <<>>)

\* C39: when the evaluator applies the failure rule, the error message of
\* its result is the error of a failed result of the batch, whatever the
\* completion service answers.
FailedErrors(execution_results) ==
    {Get(execution_results[i].error, "Unknown error") :
        i \in {j \in 1..Len(execution_results) : execution_results[j].status = "failed"}}

C39_ErrorOfFailedResult ==
    ( /\ pc = "evaluator"
      /\ state.plan.type \in {"missing", "dict"}
      /\ FailedErrors(state.tool_results) # {} ) =>
        \A answer \in EvalAnswers :
            evaluate(state, state.tool_results, answer).error_message
                \in FailedErrors(state.tool_results)

\* C40: aget called with a thread id and an explicit checkpoint id returns
\* only a checkpoint that was put under that thread.
C40_GetWithinThread ==
    ( /\ reply.op = "get"
      /\ reply.config.thread_id # NONE
      /\ reply.config.checkpoint_id # NoId ) =>
        \A i \in 1..Len(reply.rows) :
            reply.rows[i].thread_id = reply.config.thread_id
====
